---- MODULE Spec2Model ----
(***************************************************************************)
(* Model of the overlay core of Valthrun (overlay/src/lib.rs): init, the   *)
(* OverlayActiveTracker and the event handler of System::main_loop.        *)
(*                                                                         *)
(* One action per event arm of the closure handed to event_loop.run; the   *)
(* event loop itself (winit) is the environment: per iteration it delivers *)
(* NewEvents, window events, MainEventsCleared, RedrawRequested,           *)
(* RedrawEventsCleared, and it leaves the loop (LoopDestroyed) once the    *)
(* control flow is an exit and the iteration is over.  An exit control     *)
(* flow is sticky: later writes of the handler are discarded.              *)
(***************************************************************************)
EXTENDS Integers, Sequences, FiniteSets, TLC

\* ---------------------------------------------------------------- bounds
MaxIter == 3        \* loop iterations explored
MaxPaints == 2      \* RedrawRequested events delivered in one iteration
MaxNow == 2         \* ticks of Instant::now() explored

\* ------------------------------------------------------------- variables
VARIABLES
    pc,               \* "start" | "init_failed" | "initialized" | "running" | "stopped" | "panicked"
    init_in,          \* the outcomes init met: target found, monitors, display creation
    init_result,      \* "none" | "Ok" | "NotFound" | "NoMonitorAvailable" | "DisplayError" | "WinError" | "RenderError"
    exstyle,          \* GWL_EXSTYLE bits of the overlay window
    window_visible,   \* the OS shows the window
    currently_active, \* OverlayActiveTracker.currently_active
    window_active,    \* io.want_capture_mouse | io.want_capture_keyboard, as last sampled
    initial_render,   \* the first-paint latch
    control_flow,     \* "Poll" | "Exit" | "ExitWithCode1"
    last_frame,       \* the frame clock
    now,              \* Instant::now()
    redraw_pending,   \* window.request_redraw() was called and not yet served
    phase,            \* "idle" | "events" | "redraw": position in the iteration
    iter,             \* iteration number
    paints_in_iter,   \* RedrawRequested events of this iteration
    last_event,       \* the event (or operation) handled last
    calls,            \* the calls made by the last handler, in order
    prepare_ok,       \* outcome of platform.prepare_frame in the last MainEventsCleared
    update_ok,        \* value the update hook returned last ("none" if not invoked)
    hook_run,         \* value the render hook returned in the last paint
    backend,          \* "ok" | "render_err" | "swap_err" of the last paint, "none" before
    target_open,      \* the last paint left its draw target unfinished
    paint_requested,  \* the last paint served a window.request_redraw() of the loop
    flow_written,     \* what the last handler assigned to *control_flow, "none" if nothing
    relay_updates,    \* input_system.update calls of this iteration
    tracker_updates,  \* window_tracker.update calls of this iteration
    paints,           \* history: number of paint phases so far
    first_ok_paint,   \* history: number of the first successful paint, 0 if none
    show_paint,       \* history: number of the paint that issued ShowWindow, 0 if none
    show_count,       \* history: ShowWindow calls so far
    close_iter        \* history: iteration in which a close request was handled, 0 if none

vars == << pc, init_in, init_result, exstyle, window_visible, currently_active,
           window_active, initial_render, control_flow, last_frame, now,
           redraw_pending, phase, iter, paints_in_iter, last_event, calls,
           prepare_ok, update_ok, hook_run, backend, target_open, paint_requested,
           flow_written, relay_updates, tracker_updates, paints,
           first_ok_paint, show_paint, show_count, close_iter >>

\* --------------------------------------------------------------- helpers
RECURSIVE Count(_, _)
Count(s, x) ==
    IF s = << >> THEN 0
    ELSE (IF Head(s) = x THEN 1 ELSE 0) + Count(Tail(s), x)

Has(s, x) == \E i \in 1..Len(s) : s[i] = x

\* position of the first x in s, 0 if absent
IndexOf(s, x) ==
    IF Has(s, x) THEN CHOOSE i \in 1..Len(s) : s[i] = x /\ \A j \in 1..(i-1) : s[j] # x
    ELSE 0

IsExit(cf) == cf \in {"Exit", "ExitWithCode1"}

\* *control_flow = v, as the event loop keeps it: an exit is sticky
WriteFlow(cf, v) == IF IsExit(cf) THEN cf ELSE v

\* ------------------------------------------------------------------ init
\* the extended style init writes (lib.rs 134-139)
InitExStyle == {"WS_EX_LAYERED", "WS_EX_TRANSPARENT", "WS_EX_TOOLWINDOW", "WS_EX_NOACTIVATE"}

\* calls of init up to and including the monitor selection (lib.rs 59-68)
MonitorCalls(primary) ==
    << "EventLoop::new", "ContextBuilder::new", "primary_monitor" >>
        \o (IF primary THEN << >> ELSE << "available_monitors" >>)

\* calls of init after the display exists, up to the blur call (lib.rs 80-145)
StyleCalls ==
    << "Context::create", "ClipboardContext::new", "WinitPlatform::init",
       "attach_window", "add_font", "set_decorations", "set_undecorated_shadow",
       "SetWindowLongA(GWL_STYLE)", "SetWindowLongPtrA(GWL_EXSTYLE)",
       "CreateRectRgn", "DwmEnableBlurBehindWindow" >>

\* init with the tracker lookup moved behind the monitor query
InitRunLateLookup(found, primary, available, display_ok, blur_ok, renderer_ok) ==
    IF ~(primary \/ available)
    THEN [result |-> "NoMonitorAvailable", exstyle |-> {},
          calls |-> MonitorCalls(primary)]
    ELSE IF ~found
    THEN [result |-> "NotFound", exstyle |-> {},
          calls |-> MonitorCalls(primary) \o << "WindowTracker::new" >>]
    ELSE [result |-> "Ok", exstyle |-> InitExStyle,
          calls |-> MonitorCalls(primary) \o << "WindowTracker::new", "Display::new" >>
                      \o StyleCalls \o << "SetWindowPos", "Renderer::init" >>]

\* init that builds and styles the window although no monitor / display is there
InitRunNoChecks(found, primary, available, display_ok, blur_ok, renderer_ok) ==
    IF ~found
    THEN [result |-> "NotFound", exstyle |-> {}, calls |-> << "WindowTracker::new" >>]
    ELSE LET all == << "WindowTracker::new" >> \o MonitorCalls(primary)
                      \o << "Display::new" >> \o StyleCalls
                      \o << "SetWindowPos", "Renderer::init" >>
         IN  [result |-> IF ~(primary \/ available) THEN "NoMonitorAvailable"
                         ELSE IF ~display_ok THEN "DisplayError" ELSE "Ok",
              exstyle |-> InitExStyle, calls |-> all]

\* pub fn init: the result, the calls made in order, and the extended style
\* the window is left with.  Each `?` returns at the first failure.
InitRun(found, primary, available, display_ok, blur_ok, renderer_ok) ==
    LET c1 == << "WindowTracker::new" >>
        c2 == c1 \o MonitorCalls(primary)
        c3 == c2 \o << "WindowBuilder::new", "Display::new" >>
        c4 == c3 \o StyleCalls
        c5 == c4 \o << "SetWindowPos", "Renderer::init" >>
    IN  IF ~found THEN [result |-> "NotFound", exstyle |-> {}, calls |-> c1]
        ELSE IF ~(primary \/ available)
             THEN [result |-> "NoMonitorAvailable", exstyle |-> {}, calls |-> c2]
        ELSE IF ~display_ok
             THEN [result |-> "DisplayError", exstyle |-> {}, calls |-> c3]
        ELSE IF ~blur_ok
             THEN [result |-> "WinError", exstyle |-> InitExStyle, calls |-> c4]
        ELSE IF ~renderer_ok
             THEN [result |-> "RenderError", exstyle |-> InitExStyle, calls |-> c5]
        ELSE [result |-> "Ok", exstyle |-> InitExStyle, calls |-> c5]


\* ------------------------------------------------- OverlayActiveTracker
\* the OS calls OverlayActiveTracker::update can make
TrackerOsCalls == {"GetWindowLongPtrA(GWL_EXSTYLE)", "SetWindowLongPtrA(GWL_EXSTYLE)",
                   "SetActiveWindow"}

\* io.want_capture_mouse | io.want_capture_keyboard (lib.rs 178)
WantCapture(want_capture_mouse, want_capture_keyboard) ==
    want_capture_mouse \/ want_capture_keyboard

\* update without the early return: the style is rewritten on every call
TrackerUpdateAlways(cur, style, wa) ==
    [currently_active |-> wa,
     exstyle |-> IF wa THEN style \ {"WS_EX_NOACTIVATE"}
                 ELSE style \cup {"WS_EX_NOACTIVATE"},
     calls |-> << "GetWindowLongPtrA(GWL_EXSTYLE)", "SetWindowLongPtrA(GWL_EXSTYLE)" >>
                 \o (IF wa THEN << "SetActiveWindow" >> ELSE << >>)]

\* update that writes the wanted bit instead of modifying the style it read
TrackerUpdateOverwrite(cur, style, wa) ==
    IF wa = cur
    THEN [currently_active |-> cur, exstyle |-> style, calls |-> << >>]
    ELSE [currently_active |-> wa,
          exstyle |-> IF wa THEN {} ELSE {"WS_EX_NOACTIVATE"},
          calls |-> << "SetWindowLongPtrA(GWL_EXSTYLE)" >>
                      \o (IF wa THEN << "SetActiveWindow" >> ELSE << >>)]

\* update that takes the focus on both transitions, ahead of the style write
TrackerUpdateActivateBoth(cur, style, wa) ==
    IF wa = cur
    THEN [currently_active |-> cur, exstyle |-> style, calls |-> << >>]
    ELSE [currently_active |-> wa,
          exstyle |-> IF wa THEN style \ {"WS_EX_NOACTIVATE"}
                      ELSE style \cup {"WS_EX_NOACTIVATE"},
          calls |-> << "GetWindowLongPtrA(GWL_EXSTYLE)", "SetActiveWindow",
                       "SetWindowLongPtrA(GWL_EXSTYLE)" >>]

\* update with the two branches of the style change swapped
TrackerUpdateInverted(cur, style, wa) ==
    IF wa = cur
    THEN [currently_active |-> cur, exstyle |-> style, calls |-> << >>]
    ELSE [currently_active |-> wa,
          exstyle |-> IF wa THEN style \cup {"WS_EX_NOACTIVATE"}
                      ELSE style \ {"WS_EX_NOACTIVATE"},
          calls |-> << "GetWindowLongPtrA(GWL_EXSTYLE)", "SetWindowLongPtrA(GWL_EXSTYLE)" >>
                      \o (IF wa THEN << "SetActiveWindow" >> ELSE << >>)]

\* OverlayActiveTracker::update(window, io), wa the sampled capture request:
\* the tracker's new field, the window's new extended style, the OS calls made
TrackerUpdate(cur, style, wa) ==
    IF wa = cur
    THEN [currently_active |-> cur, exstyle |-> style, calls |-> << >>]
    ELSE [currently_active |-> wa,
          exstyle |-> IF wa THEN style \ {"WS_EX_NOACTIVATE"}
                      ELSE style \cup {"WS_EX_NOACTIVATE"},
          calls |-> << "GetWindowLongPtrA(GWL_EXSTYLE)", "SetWindowLongPtrA(GWL_EXSTYLE)" >>
                      \o (IF wa THEN << "SetActiveWindow" >> ELSE << >>)]

\* --------------------------------------------- handlers of main_loop
\* the input/tracking phase with the activation update ahead of the relay
TrackingCallsActivationFirst(tracker_calls) ==
    << "active_tracker.update" >> \o tracker_calls
        \o << "input_system.update", "window_tracker.update" >>

\* the input/tracking phase feeding the input relay a second time and
\* leaving out the window tracker
TrackingCallsRelayTwice(tracker_calls) ==
    << "input_system.update", "active_tracker.update" >> \o tracker_calls
        \o << "input_system.update" >>

\* lib.rs 238-240: input relay, activation state machine, window tracker
TrackingCalls(tracker_calls) ==
    << "input_system.update", "active_tracker.update" >> \o tracker_calls
        \o << "window_tracker.update" >>

\* an update hook whose result is ignored
UpdateHookAlwaysRedraw(cf, keep_running) ==
    [control_flow |-> cf, written |-> "none", redraw |-> TRUE,
     calls |-> << "update", "request_redraw" >>]

\* a redraw requested ahead of the update hook, whatever the hook returns
UpdateHookRedrawFirst(cf, keep_running) ==
    [control_flow |-> IF keep_running THEN cf ELSE WriteFlow(cf, "Exit"),
     written |-> IF keep_running THEN "none" ELSE "Exit",
     redraw |-> TRUE, calls |-> << "request_redraw", "update" >>]

\* lib.rs 242-247: the update hook and what follows it
UpdateHook(cf, keep_running) ==
    IF ~keep_running
    THEN [control_flow |-> WriteFlow(cf, "Exit"), written |-> "Exit", redraw |-> FALSE,
          calls |-> << "update" >>]
    ELSE [control_flow |-> cf, written |-> "none", redraw |-> TRUE,
          calls |-> << "update", "request_redraw" >>]

\* a paint that trusts the render hook alone
PaintRunHookOnly(run, be) == run

\* lib.rs 253-267: `run` after the backend render and the buffer swap
PaintRun(run, be) == IF be = "ok" THEN run ELSE FALSE

\* lib.rs 250-267: the calls of a paint up to the buffer swap; target.finish
\* is in the else branch of the backend render's error check
PaintCalls(run, be) ==
    << "imgui.frame", "render", "display.draw", "target.clear_all",
       "platform.prepare_render", "imgui.render", "renderer.render" >>
        \o (IF be = "render_err" THEN << >> ELSE << "target.finish" >>)

\* a prepare_frame failure that is logged and then ignored
PrepareFailureGoesOn(cf) ==
    [control_flow |-> cf, written |-> "none",
     calls |-> << "platform.prepare_frame", "input_system.update",
                  "active_tracker.update", "window_tracker.update", "update",
                  "request_redraw" >>]

\* lib.rs 231-235: platform.prepare_frame returned Err
PrepareFailure(cf) ==
    [control_flow |-> WriteFlow(cf, "ExitWithCode1"), written |-> "ExitWithCode1",
     calls |-> << "platform.prepare_frame" >>]

\* a fallback arm that treats an unknown event as a request to stop
FallbackArmStops(cf) ==
    [control_flow |-> WriteFlow(cf, "Exit"), written |-> "Exit", calls |-> << >>]

\* lib.rs 285-288: every other event goes to platform.handle_event
FallbackArm(cf) ==
    [control_flow |-> cf, written |-> "none", calls |-> << "platform.handle_event" >>]

\* a close request that is only forwarded to the UI platform
CloseFlowIgnored(cf) == cf

\* lib.rs 281-284
CloseFlow(cf) == WriteFlow(cf, "Exit")


\* ----------------------------------------------------------------- state
Init ==
    /\ pc = "start"
    /\ init_result = "none"
    /\ init_in = [found |-> TRUE, primary |-> TRUE, available |-> TRUE, display_ok |-> TRUE]
    /\ exstyle = {}
    /\ window_visible = FALSE
    /\ currently_active = FALSE
    /\ window_active = FALSE
    /\ initial_render = TRUE
    /\ control_flow = "Poll"
    /\ last_frame = 0
    /\ now = 0
    /\ redraw_pending = FALSE
    /\ phase = "idle"
    /\ iter = 0
    /\ paints_in_iter = 0
    /\ last_event = "none"
    /\ calls = << >>
    /\ prepare_ok = TRUE
    /\ update_ok = "none"
    /\ hook_run = TRUE
    /\ backend = "none"
    /\ target_open = FALSE
    /\ paint_requested = FALSE
    /\ flow_written = "none"
    /\ relay_updates = 0
    /\ tracker_updates = 0
    /\ paints = 0
    /\ first_ok_paint = 0
    /\ show_paint = 0
    /\ show_count = 0
    /\ close_iter = 0

loop_state == << currently_active, window_active, initial_render, control_flow,
                 last_frame, now, redraw_pending, phase, iter, paints_in_iter >>
mec_inputs == << prepare_ok, update_ok >>
paint_inputs == << hook_run, backend, target_open, paint_requested >>
iter_counts == << relay_updates, tracker_updates >>
loop_rest == << currently_active, window_active, initial_render, last_frame, now,
                redraw_pending, phase, iter, paints_in_iter >>
history == << paints, first_ok_paint, show_paint, show_count, close_iter >>

\* pub fn init(title, target_window)
InitSystem ==
    /\ pc = "start"
    /\ \E found, primary, available, display_ok, blur_ok, renderer_ok \in BOOLEAN :
         LET r == InitRun(found, primary, available, display_ok, blur_ok, renderer_ok)
         IN  /\ init_result' = r.result
             /\ init_in' = [found |-> found, primary |-> primary,
                            available |-> available, display_ok |-> display_ok]
             /\ exstyle' = r.exstyle
             /\ calls' = r.calls
             /\ pc' = IF r.result = "Ok" THEN "initialized" ELSE "init_failed"
    /\ last_event' = "init"
    /\ UNCHANGED << window_visible, loop_state, mec_inputs, paint_inputs, flow_written,
                    iter_counts, history >>

\* System::main_loop up to event_loop.run (lib.rs 217-221)
MainLoopStart ==
    /\ pc = "initialized"
    /\ pc' = "running"
    /\ last_frame' = now
    /\ currently_active' = FALSE
    /\ initial_render' = TRUE
    /\ last_event' = "main_loop"
    /\ calls' = << "Instant::now", "OverlayActiveTracker::new", "InputSystem::new" >>
    /\ UNCHANGED << init_in, init_result, exstyle, window_visible, window_active, control_flow,
                    now, redraw_pending, phase, iter, paints_in_iter,
                    mec_inputs, paint_inputs, flow_written, iter_counts, history >>

\* Event::NewEvents: the next iteration starts; the frame clock is reset
NewEvents ==
    /\ pc = "running" /\ phase = "idle"
    /\ ~IsExit(control_flow)
    /\ iter < MaxIter
    /\ \E dt \in 0..1 :
         /\ now + dt <= MaxNow
         /\ now' = now + dt
         /\ last_frame' = now + dt
    /\ iter' = iter + 1
    /\ paints_in_iter' = 0
    /\ phase' = "events"
    /\ last_event' = "NewEvents"
    /\ calls' = << "Instant::now", "update_delta_time" >>
    /\ flow_written' = "none"
    /\ relay_updates' = 0
    /\ tracker_updates' = 0
    /\ UNCHANGED << pc, init_in, init_result, exstyle, window_visible, currently_active,
                    window_active, initial_render, control_flow, redraw_pending,
                    mec_inputs, paint_inputs, history >>

\* any event of the fallback arm (lib.rs 285-288)
OtherEvent ==
    /\ pc = "running" /\ phase = "events"
    /\ last_event' = "Other"
    /\ control_flow' = FallbackArm(control_flow).control_flow
    /\ flow_written' = FallbackArm(control_flow).written
    /\ calls' = FallbackArm(control_flow).calls
    /\ UNCHANGED << pc, init_in, init_result, exstyle, window_visible, loop_rest,
                    mec_inputs, paint_inputs, iter_counts, history >>

\* Event::WindowEvent { event: WindowEvent::CloseRequested }
CloseRequested ==
    /\ pc = "running" /\ phase = "events"
    /\ control_flow' = CloseFlow(control_flow)
    /\ flow_written' = "Exit"
    /\ close_iter' = IF close_iter = 0 THEN iter ELSE close_iter
    /\ last_event' = "CloseRequested"
    /\ calls' = << >>
    /\ UNCHANGED << pc, init_in, init_result, exstyle, window_visible, currently_active,
                    window_active, initial_render, last_frame, now, redraw_pending,
                    phase, iter, paints_in_iter, mec_inputs, paint_inputs, iter_counts,
                    paints, first_ok_paint, show_paint, show_count >>

\* Event::MainEventsCleared
MainEventsCleared ==
    /\ pc = "running" /\ phase = "events"
    /\ phase' = "redraw"
    /\ last_event' = "MainEventsCleared"
    /\ \E p_ok, want_capture_mouse, want_capture_keyboard, keep_running \in BOOLEAN :
         IF ~p_ok
         THEN /\ prepare_ok' = FALSE
              /\ update_ok' = "none"
              /\ control_flow' = PrepareFailure(control_flow).control_flow
              /\ flow_written' = PrepareFailure(control_flow).written
              /\ calls' = PrepareFailure(control_flow).calls
              /\ UNCHANGED << currently_active, window_active, exstyle, redraw_pending >>
         ELSE LET wa == WantCapture(want_capture_mouse, want_capture_keyboard)
                  t == TrackerUpdate(currently_active, exstyle, wa)
                  u == UpdateHook(control_flow, keep_running)
              IN  /\ prepare_ok' = TRUE
                  /\ update_ok' = IF keep_running THEN "true" ELSE "false"
                  /\ window_active' = wa
                  /\ currently_active' = t.currently_active
                  /\ exstyle' = t.exstyle
                  /\ control_flow' = u.control_flow
                  /\ flow_written' = u.written
                  /\ redraw_pending' = (redraw_pending \/ u.redraw)
                  /\ calls' = << "platform.prepare_frame" >> \o TrackingCalls(t.calls)
                                 \o u.calls
    /\ relay_updates' = relay_updates + Count(calls', "input_system.update")
    /\ tracker_updates' = tracker_updates + Count(calls', "window_tracker.update")
    /\ UNCHANGED << pc, init_in, init_result, window_visible, initial_render, last_frame, now,
                    iter, paints_in_iter, paint_inputs, history >>

\* Event::RedrawRequested: the paint phase.  The event is delivered for a
\* requested redraw, and for a paint message of the OS once the window shows.
RedrawRequested ==
    /\ pc = "running" /\ phase = "redraw"
    /\ redraw_pending \/ window_visible
    /\ paints_in_iter < MaxPaints
    /\ paints_in_iter' = paints_in_iter + 1
    /\ redraw_pending' = FALSE
    /\ paint_requested' = redraw_pending
    /\ last_event' = "RedrawRequested"
    /\ paints' = paints + 1
    /\ \E run \in BOOLEAN, be \in {"ok", "render_err", "swap_err"} :
         /\ hook_run' = run
         /\ backend' = be
         /\ control_flow' = IF ~PaintRun(run, be) THEN WriteFlow(control_flow, "Exit")
                            ELSE control_flow
         /\ flow_written' = IF ~PaintRun(run, be) THEN "Exit" ELSE "none"
         /\ calls' = PaintCalls(run, be)
                       \o (IF initial_render THEN << "ShowWindow(SW_SHOW)" >> ELSE << >>)
         /\ target_open' = (Has(PaintCalls(run, be), "display.draw")
                            /\ ~Has(PaintCalls(run, be), "target.finish"))
         /\ first_ok_paint' = IF first_ok_paint = 0 /\ be = "ok" THEN paints + 1
                              ELSE first_ok_paint
         \* a draw target dropped unfinished panics at the end of the arm
         /\ pc' = IF Has(PaintCalls(run, be), "display.draw")
                     /\ ~Has(PaintCalls(run, be), "target.finish")
                  THEN "panicked" ELSE pc
    /\ initial_render' = FALSE
    /\ window_visible' = (window_visible \/ initial_render)
    /\ show_count' = IF initial_render THEN show_count + 1 ELSE show_count
    /\ show_paint' = IF initial_render THEN paints + 1 ELSE show_paint
    /\ UNCHANGED << init_in, init_result, exstyle, currently_active, window_active, last_frame,
                    now, phase, iter, mec_inputs, iter_counts, close_iter >>

\* Event::RedrawEventsCleared ends the iteration; it takes the fallback arm
RedrawEventsCleared ==
    /\ pc = "running" /\ phase = "redraw"
    /\ ~redraw_pending            \* a requested redraw is served first
    /\ phase' = "idle"
    /\ last_event' = "RedrawEventsCleared"
    /\ control_flow' = FallbackArm(control_flow).control_flow
    /\ flow_written' = FallbackArm(control_flow).written
    /\ calls' = FallbackArm(control_flow).calls
    /\ UNCHANGED << pc, init_in, init_result, exstyle, window_visible, currently_active,
                    window_active, initial_render, last_frame, now,
                    redraw_pending, iter, paints_in_iter, mec_inputs, paint_inputs,
                    iter_counts, history >>

\* the control flow is an exit and the iteration is over: Event::LoopDestroyed
\* takes the fallback arm and event_loop.run ends the process
LoopDestroyed ==
    /\ pc = "running" /\ phase = "idle"
    /\ IsExit(control_flow)
    /\ pc' = "stopped"
    /\ last_event' = "LoopDestroyed"
    /\ control_flow' = FallbackArm(control_flow).control_flow
    /\ flow_written' = FallbackArm(control_flow).written
    /\ calls' = FallbackArm(control_flow).calls
    /\ UNCHANGED << init_in, init_result, exstyle, window_visible, loop_rest, mec_inputs,
                    paint_inputs, iter_counts, history >>

Next ==
    \/ InitSystem
    \/ MainLoopStart
    \/ NewEvents
    \/ OtherEvent
    \/ CloseRequested
    \/ MainEventsCleared
    \/ RedrawRequested
    \/ RedrawEventsCleared
    \/ LoopDestroyed

Spec == Init /\ [][Next]_vars

TypeOK ==
    /\ pc \in {"start", "init_failed", "initialized", "running", "stopped", "panicked"}
    /\ control_flow \in {"Poll", "Exit", "ExitWithCode1"}
    /\ phase \in {"idle", "events", "redraw"}
    /\ currently_active \in BOOLEAN /\ window_active \in BOOLEAN
    /\ initial_render \in BOOLEAN /\ redraw_pending \in BOOLEAN
    /\ exstyle \subseteq InitExStyle
    /\ iter \in 0..MaxIter /\ paints_in_iter \in 0..MaxPaints
    /\ last_frame \in 0..MaxNow /\ now \in 0..MaxNow


\* ================================================================ claims
NoTrackerOsCall(s) == \A i \in 1..Len(s) : s[i] \notin TrackerOsCalls

\* C1: after every call of OverlayActiveTracker::update currently_active
\* equals the value just sampled; the extended-style write is issued exactly
\* once when the sample differs from the previous currently_active, and a
\* call whose sample equals currently_active issues no OS call at all.
C1_ActivationFollowsSample ==
    [][ (last_event' = "MainEventsCleared" /\ prepare_ok') =>
          /\ currently_active' = window_active'
          /\ Count(calls', "SetWindowLongPtrA(GWL_EXSTYLE)")
                = (IF window_active' # currently_active THEN 1 ELSE 0)
          /\ (window_active' = currently_active => NoTrackerOsCall(calls')) ]_vars

\* a repeat of the sample TRUE: the tracker stays active without an OS call
C1_Witness ==
    /\ last_event = "MainEventsCleared" /\ prepare_ok
    /\ Has(calls, "active_tracker.update")
    /\ currently_active /\ window_active
    /\ NoTrackerOsCall(calls)

\* C2 (as claimed): ShowWindow is never issued unless a paint phase in which
\* the backend render and the buffer swap both succeeded has completed at
\* or before that point.
C2_NoShowBeforeSuccessfulPaint ==
    show_count > 0 => (first_ok_paint # 0 /\ first_ok_paint <= show_paint)

\* C3 (as claimed): ShowWindow is issued exactly once if a paint succeeds,
\* it is issued during the first successful paint, never a second time, and
\* the window is never hidden afterwards.
C3_ShownOnceOnFirstSuccessfulPaint ==
    /\ (first_ok_paint # 0 => show_count = 1)
    /\ (show_count > 0 => show_paint = first_ok_paint)
    /\ show_count <= 1
    /\ (show_count > 0 => window_visible)

\* C4: whenever a close request is handled, in any loop state, the control
\* flow is an exit afterwards, and the loop does not run beyond the next
\* iteration.
C4_CloseRequestExits ==
    /\ (last_event = "CloseRequested" => IsExit(control_flow))
    /\ (close_iter # 0 => (IsExit(control_flow) /\ iter <= close_iter + 1))

\* a close request handled after the first paint, while the overlay is active
C4_Witness ==
    /\ last_event = "CloseRequested"
    /\ ~initial_render /\ currently_active
    /\ IsExit(control_flow)

\* C5: in an iteration in which the update hook returns false the control
\* flow is set to the clean exit and no redraw is requested.
C5_UpdateStopNoRedraw ==
    (last_event = "MainEventsCleared" /\ update_ok = "false") =>
        /\ control_flow = "Exit"
        /\ ~Has(calls, "request_redraw")
        /\ ~redraw_pending

C5_Witness ==
    /\ last_event = "MainEventsCleared" /\ update_ok = "false"
    /\ Has(calls, "update")
    /\ iter > 1

\* C6: a paint in which the backend render or the buffer swap fails sets
\* the control flow to exit, whatever the render hook returned.
C6_BackendFailureExits ==
    (last_event = "RedrawRequested" /\ backend \in {"render_err", "swap_err"}) =>
        IsExit(control_flow)

\* the buffer swap failed although the render hook asked to go on
C6_Witness ==
    /\ last_event = "RedrawRequested"
    /\ backend = "swap_err" /\ hook_run
    /\ IsExit(control_flow)

\* C7 (as claimed): a paint whose render hook returns false is still carried
\* out in full (target cleared, draw data submitted, buffer swap attempted)
\* and then sets the control flow to exit.
C7_StopAfterFullPaint ==
    (last_event = "RedrawRequested" /\ ~hook_run) =>
        /\ Has(calls, "target.clear_all")
        /\ Has(calls, "renderer.render")
        /\ Has(calls, "target.finish")
        /\ IndexOf(calls, "render") < IndexOf(calls, "renderer.render")
        /\ IsExit(control_flow)

\* the calls init must not have made when the target window is missing
AfterLookupCalls ==
    { "EventLoop::new", "primary_monitor", "available_monitors", "WindowBuilder::new",
      "Display::new", "SetWindowLongA(GWL_STYLE)", "SetWindowLongPtrA(GWL_EXSTYLE)",
      "DwmEnableBlurBehindWindow", "SetWindowPos" }
WindowCalls == { "WindowBuilder::new", "Display::new" }
StylingCalls == { "SetWindowLongA(GWL_STYLE)", "SetWindowLongPtrA(GWL_EXSTYLE)",
                  "DwmEnableBlurBehindWindow", "SetWindowPos" }
NoneOf(s, S) == \A i \in 1..Len(s) : s[i] \notin S

\* C8: if the target window is not found, init returns the not-found error
\* and has made no monitor query, no window / graphics context creation and
\* no window-style call.
C8_NotFoundBeforeAnything ==
    (last_event = "init" /\ ~init_in.found) =>
        /\ init_result = "NotFound" /\ pc = "init_failed"
        /\ NoneOf(calls, AfterLookupCalls)
        /\ exstyle = {}

\* the target is missing although a monitor and a display would be there
C8_Witness ==
    /\ last_event = "init" /\ ~init_in.found
    /\ init_in.primary /\ init_in.display_ok
    /\ init_result = "NotFound"

\* C9: target found but no monitor: NoMonitorAvailable, and no window or
\* graphics context was created; a monitor but no graphics context:
\* DisplayError, and no style, blur or z-order call was made.
C9_MonitorAndDisplayFailures ==
    /\ (last_event = "init" /\ init_in.found /\ ~init_in.primary /\ ~init_in.available) =>
          /\ init_result = "NoMonitorAvailable" /\ pc = "init_failed"
          /\ NoneOf(calls, WindowCalls \cup StylingCalls)
    /\ (last_event = "init" /\ init_in.found /\ (init_in.primary \/ init_in.available)
          /\ ~init_in.display_ok) =>
          /\ init_result = "DisplayError" /\ pc = "init_failed"
          /\ NoneOf(calls, StylingCalls)
          /\ exstyle = {}

\* the display could not be created on a monitor that is not the primary one
C9_Witness ==
    /\ last_event = "init" /\ init_in.found
    /\ ~init_in.primary /\ init_in.available /\ ~init_in.display_ok
    /\ init_result = "DisplayError"
    /\ Has(calls, "Display::new")

\* C10 (as claimed): in every iteration the activation update happens
\* before the frame's input is delivered to the UI by the Input Relay.
C10_ActivationBeforeInput ==
    (last_event = "MainEventsCleared" /\ prepare_ok) =>
        IndexOf(calls, "active_tracker.update") < IndexOf(calls, "input_system.update")

\* C10 (amended): in every iteration that passes prepare_frame the Input
\* Relay feeds the frame's input first, the activation update follows it,
\* and both precede the update hook.
C10_InputBeforeActivation ==
    (last_event = "MainEventsCleared" /\ prepare_ok) =>
        /\ Count(calls, "input_system.update") = 1
        /\ Count(calls, "active_tracker.update") = 1
        /\ IndexOf(calls, "input_system.update") < IndexOf(calls, "active_tracker.update")
        /\ IndexOf(calls, "active_tracker.update") < IndexOf(calls, "update")

\* an iteration whose activation update toggled the style after the input
C10_Witness ==
    /\ last_event = "MainEventsCleared" /\ prepare_ok
    /\ Has(calls, "SetActiveWindow")
    /\ IndexOf(calls, "input_system.update") < IndexOf(calls, "SetActiveWindow")


\* C11 (as claimed): a redraw request is only issued after the update hook
\* of the iteration returned true, and every paint phase is preceded by an
\* update hook invocation and a redraw request of the same iteration.
C11_UpdateRequestPaintOrder ==
    /\ (last_event = "MainEventsCleared" /\ Has(calls, "request_redraw")) =>
          (update_ok = "true" /\ IndexOf(calls, "update") < IndexOf(calls, "request_redraw"))
    /\ (last_event = "RedrawRequested") => (prepare_ok /\ update_ok = "true")

\* C11 (amended): a redraw request is only issued, once, after the update
\* hook of the iteration returned true, and every paint phase that serves a
\* redraw request of the loop is preceded in its iteration by the update hook
\* returning true.
C11_RequestedPaintOrder ==
    /\ (last_event = "MainEventsCleared" /\ Has(calls, "request_redraw")) =>
          /\ update_ok = "true"
          /\ Count(calls, "request_redraw") = 1
          /\ IndexOf(calls, "update") < IndexOf(calls, "request_redraw")
    /\ (last_event = "MainEventsCleared" /\ update_ok # "true") => ~redraw_pending
    /\ (last_event = "RedrawRequested" /\ paint_requested) =>
          (prepare_ok /\ update_ok = "true")

\* a requested paint of a later iteration
C11_Witness ==
    /\ last_event = "RedrawRequested" /\ paint_requested
    /\ update_ok = "true" /\ iter > 1

\* C12 (as claimed): the Input Relay update and the Target Window Tracker
\* update are each called exactly once per iteration, the Input Relay
\* update before the iteration's update hook.
C12_OncePerIteration ==
    /\ (last_event = "RedrawEventsCleared") => (relay_updates = 1 /\ tracker_updates = 1)
    /\ (last_event = "MainEventsCleared" /\ Has(calls, "update")) =>
          (Has(calls, "input_system.update")
           /\ IndexOf(calls, "input_system.update") < IndexOf(calls, "update"))

\* C12 (amended): in an iteration whose prepare_frame succeeds the Input
\* Relay update and the Target Window Tracker update are each called exactly
\* once, the Input Relay update before the update hook; in an iteration
\* whose prepare_frame fails neither is called.
C12_OncePerPreparedIteration ==
    /\ (last_event = "RedrawEventsCleared") =>
          /\ relay_updates = (IF prepare_ok THEN 1 ELSE 0)
          /\ tracker_updates = (IF prepare_ok THEN 1 ELSE 0)
    /\ (relay_updates <= 1 /\ tracker_updates <= 1)
    /\ (last_event = "MainEventsCleared" /\ Has(calls, "update")) =>
          (Has(calls, "input_system.update")
           /\ IndexOf(calls, "input_system.update") < IndexOf(calls, "update"))

\* the second iteration is over and has fed both collaborators once
C12_Witness ==
    /\ last_event = "RedrawEventsCleared" /\ iter = 2
    /\ prepare_ok /\ relay_updates = 1 /\ tracker_updates = 1


\* the window exists and carries the style init gave it
WindowStyled == pc \in {"initialized", "running", "stopped", "panicked"}

\* C13 (as claimed): the activation update clears the input-transparent bit
\* on Inactive -> Active and sets it on Active -> Inactive, so the window is
\* input-transparent exactly when currently_active is false.
C13_TransparentIffInactive ==
    WindowStyled => (("WS_EX_TRANSPARENT" \in exstyle) <=> ~currently_active)

\* the extended-style bits an activation update may toggle
ToggleBits == {"WS_EX_NOACTIVATE", "WS_EX_TRANSPARENT"}

\* C14: after init and any sequence of activation updates the extended
\* style contains the layered bit and the tool-window bit, and an activation
\* update changes no bit other than the no-activate / input-transparent bits.
C14_StyleKeptByUpdates ==
    [][ /\ (pc' \in {"initialized", "running", "stopped", "panicked"}) =>
              {"WS_EX_LAYERED", "WS_EX_TOOLWINDOW"} \subseteq exstyle'
        /\ (last_event' = "MainEventsCleared") =>
              (exstyle' \ ToggleBits = exstyle \ ToggleBits) ]_vars

\* an activation update has rewritten the style: only no-activate is gone
C14_Witness ==
    /\ last_event = "MainEventsCleared"
    /\ Has(calls, "SetWindowLongPtrA(GWL_EXSTYLE)")
    /\ exstyle = InitExStyle \ {"WS_EX_NOACTIVATE"}

\* C15: SetActiveWindow is issued exactly on Inactive -> Active transitions,
\* after the extended-style write of the same transition, and never on an
\* Active -> Inactive transition, on a no-op update or by another handler.
C15_SetActiveOnActivation ==
    [][ /\ (last_event' = "MainEventsCleared" /\ prepare_ok') =>
              /\ Count(calls', "SetActiveWindow")
                    = (IF ~currently_active /\ window_active' THEN 1 ELSE 0)
              /\ Has(calls', "SetActiveWindow") =>
                    /\ Has(calls', "SetWindowLongPtrA(GWL_EXSTYLE)")
                    /\ IndexOf(calls', "SetWindowLongPtrA(GWL_EXSTYLE)")
                          < IndexOf(calls', "SetActiveWindow")
        /\ (last_event' # "MainEventsCleared" \/ ~prepare_ok') =>
              ~Has(calls', "SetActiveWindow") ]_vars

\* the overlay became active again in a later iteration
C15_Witness ==
    /\ last_event = "MainEventsCleared" /\ iter = 3
    /\ currently_active
    /\ Count(calls, "SetActiveWindow") = 1


\* what an iteration does after a successful prepare_frame
AfterPrepareCalls ==
    { "input_system.update", "active_tracker.update", "window_tracker.update",
      "update", "request_redraw" } \cup TrackerOsCalls

\* C16: when platform.prepare_frame fails the handler assigns
\* ControlFlow::ExitWithCode(1) and returns: no Input Relay update, no
\* activation update, no Target Window Tracker update, no update hook and no
\* redraw request in that iteration; the activation state and the first-paint
\* latch stay as they were.
C16_PrepareFailureIsFatal ==
    [][ (last_event' = "MainEventsCleared" /\ ~prepare_ok') =>
          /\ flow_written' = "ExitWithCode1"
          /\ control_flow' = (IF IsExit(control_flow) THEN control_flow
                              ELSE "ExitWithCode1")
          /\ NoneOf(calls', AfterPrepareCalls)
          /\ relay_updates' = 0 /\ tracker_updates' = 0
          /\ update_ok' = "none"
          /\ redraw_pending' = redraw_pending
          /\ currently_active' = currently_active
          /\ exstyle' = exstyle
          /\ initial_render' = initial_render ]_vars

\* prepare_frame failed while the overlay was active, after the first paint
C16_Witness ==
    /\ last_event = "MainEventsCleared" /\ ~prepare_ok
    /\ control_flow = "ExitWithCode1"
    /\ currently_active /\ ~initial_render

\* C17 (as claimed): a termination caused by a runtime failure (prepare_frame,
\* backend render, buffer swap) ends with a non-zero exit code, a termination
\* caused by a hook returning false or by a close request with exit code
\* zero, and a non-zero exit code once requested is never replaced by zero.
C17_ExitCodeSignalsFailure ==
    [][ /\ (pc' = "stopped" /\ close_iter' = 0 /\ update_ok' # "false"
              /\ (~prepare_ok' \/ backend' \in {"render_err", "swap_err"})) =>
              control_flow' = "ExitWithCode1"
        /\ (pc' = "stopped" /\ prepare_ok' /\ backend' \notin {"render_err", "swap_err"}) =>
              control_flow' = "Exit"
        /\ (control_flow = "ExitWithCode1") => (control_flow' = "ExitWithCode1") ]_vars

\* the events that take the fallback arm
FallbackEvents == {"Other", "RedrawEventsCleared", "LoopDestroyed"}

\* C18: every event other than NewEvents, MainEventsCleared, RedrawRequested
\* and CloseRequested is forwarded exactly once to platform.handle_event;
\* handling it leaves the control flow, currently_active, the first-paint
\* latch and the frame clock unchanged and invokes neither hook.
C18_FallbackForwardsOnly ==
    [][ /\ (last_event' \in FallbackEvents) =>
              /\ Count(calls', "platform.handle_event") = 1
              /\ NoneOf(calls', {"update", "render"})
              /\ flow_written' = "none"
              /\ control_flow' = control_flow
              /\ currently_active' = currently_active
              /\ initial_render' = initial_render
              /\ last_frame' = last_frame
        /\ (last_event' \notin FallbackEvents) =>
              ~Has(calls', "platform.handle_event") ]_vars

\* a forwarded event while the loop goes on, active, after the first paint
C18_Witness ==
    /\ last_event = "Other"
    /\ calls = << "platform.handle_event" >>
    /\ control_flow = "Poll"
    /\ currently_active /\ ~initial_render

\* C19 (as claimed): every paint that opens a draw target finishes it before
\* the handler returns, on every path; no draw target is left open.
C19_TargetAlwaysFinished ==
    /\ ~target_open
    /\ (last_event = "RedrawRequested" /\ Has(calls, "display.draw")) =>
          /\ Has(calls, "target.finish")
          /\ IndexOf(calls, "display.draw") < IndexOf(calls, "target.finish")

\* C20: after init and after every activation update the no-activate bit is
\* set exactly when currently_active is false.
C20_NoActivateIffInactive ==
    WindowStyled => (("WS_EX_NOACTIVATE" \in exstyle) <=> ~currently_active)

\* the overlay went back to inactive and the bit was set again
C20_Witness ==
    /\ last_event = "MainEventsCleared"
    /\ Has(calls, "SetWindowLongPtrA(GWL_EXSTYLE)")
    /\ ~currently_active
    /\ "WS_EX_NOACTIVATE" \in exstyle


====
